---- MODULE Spec2Model ----
(***************************************************************************)
(* GhostChat backend (backend/server.py): the ConnectionManager (presence  *)
(* registry and typing-state tracker) and the per-connection relay loop    *)
(* websocket_endpoint.                                                     *)
(*                                                                         *)
(* The server is an asyncio program: one task per websocket connection,    *)
(* all sharing the process-wide `manager`.  A task runs without            *)
(* interruption between two `await`s, so every action below is the code    *)
(* from the completion of one await up to the next one.  The awaits are    *)
(* websocket.accept(), websocket.receive_json() and every send_json().     *)
(*                                                                         *)
(* A connection is named by a number (its WebSocket handle).  The client   *)
(* end of a handle is `alive` until the peer closes or the network fails;  *)
(* send_json on a handle succeeds iff the handle is alive and appends the  *)
(* event to what that client has received (`inbox`).                       *)
(*                                                                         *)
(* The HTTP side is modelled next to it, with specifications of its own:    *)
(* SpecContacts runs add_contact, remove_contact and auth_telegram          *)
(* requests concurrently against the SQLite database, SpecValidate makes   *)
(* one call of validate_telegram_data on every init_data of a bounded set. *)
(* SpecTrio runs the relay with three connections that stay open.          *)
(***************************************************************************)
EXTENDS Integers, Sequences, FiniteSets, TLC

\* ------------------------------------------------------------------ bounds
\* inbound frames the clients send in one run
MaxEvents == 2

\* HTTP requests of one run
MaxCalls == 2

\* fields of one init_data string
MaxFields == 2

\* inbound frames the clients send in one run of three connections
MaxTrioEvents == 1

\* the websocket connections of a run (their handles) and the anonymous ids
\* they may connect under; two connections may use the same id
Conns == {1, 2}
Ids == {"a", "b"}

\* the same with a third connection and a third id, which no frame addresses
AllConns == {1, 2, 3}
AllIds == {"a", "b", "c"}

\* ------------------------------------------------- Python values and dicts
\* data.get(k) of a missing key
None == "<None>"
\* the key of a deleted slot of a dict's entry table
NullKey == "<NULL>"
NoConn == 0

\* A text is the sequence of the code points of its characters.  These are
\* the characters str.strip() removes (those with str.isspace()).
Whitespace ==
    (9..13) \cup (28..32) \cup {133, 160, 5760} \cup (8192..8202)
    \cup {8232, 8233, 8239, 8287, 12288}

\* Python truthiness of a string or None (None and "" are falsy)
Truthy(x) == x \notin {None, ""}

RECURSIVE LStrip(_)
LStrip(s) == IF s = <<>> THEN s
             ELSE IF Head(s) \in Whitespace THEN LStrip(Tail(s)) ELSE s

RECURSIVE RStrip(_)
RStrip(s) == IF s = <<>> THEN s
             ELSE IF s[Len(s)] \in Whitespace THEN RStrip(SubSeq(s, 1, Len(s) - 1))
             ELSE s

\* (fault: the text is not trimmed)
StripNothing(s) == s

\* str.strip()
Strip(s) == RStrip(LStrip(s))

(* A dict is CPython's insertion-ordered entry table: a new key is appended, *)
(* a deleted key leaves an empty slot in place, a stored value of a present  *)
(* key is replaced in place.  (The table is only compacted when its free     *)
(* slots are used up, which takes more insertions than Conns can make.)      *)
EmptySlot == [key |-> NullKey, ws |-> NoConn]

dict_index(d, k) ==
    IF \E i \in 1..Len(d) : d[i].key = k
    THEN CHOOSE i \in 1..Len(d) : d[i].key = k
    ELSE 0

dict_contains(d, k) == dict_index(d, k) # 0

dict_getitem(d, k) == d[dict_index(d, k)].ws

dict_len(d) == Cardinality({i \in 1..Len(d) : d[i].key # NullKey})

dict_keys(d) == {d[i].key : i \in {j \in 1..Len(d) : d[j].key # NullKey}}

\* list(d.keys()): the keys of the used slots, in insertion order
RECURSIVE dict_key_list(_)
dict_key_list(d) ==
    IF d = <<>> THEN <<>>
    ELSE IF Head(d).key = NullKey THEN dict_key_list(Tail(d))
    ELSE <<Head(d).key>> \o dict_key_list(Tail(d))

\* (fault: a present key gets a second entry)
dict_setitem_append(d, k, v) == Append(d, [key |-> k, ws |-> v])

\* d[k] = v
dict_setitem(d, k, v) ==
    IF dict_contains(d, k)
    THEN [d EXCEPT ![dict_index(d, k)] = [key |-> k, ws |-> v]]
    ELSE Append(d, [key |-> k, ws |-> v])

\* (fault: the entry is not removed)
dict_delitem_keep(d, k) == d

\* del d[k]
dict_delitem(d, k) == [d EXCEPT ![dict_index(d, k)] = EmptySlot]

\* iter(d.items()): remembers the size, a position and how many items are left
dict_iter(d) == [di_used |-> dict_len(d), di_pos |-> 1, len |-> dict_len(d)]

NextLive(d, pos) ==
    IF \E i \in pos..Len(d) : d[i].key # NullKey
    THEN CHOOSE i \in pos..Len(d) :
            /\ d[i].key # NullKey
            /\ \A j \in pos..(i - 1) : d[j].key = NullKey
    ELSE 0

\* next(it): an item, StopIteration ("stop") or RuntimeError ("error")
dict_iternext(d, it) ==
    IF it.di_used # dict_len(d)
    THEN [kind |-> "error", key |-> NullKey, ws |-> NoConn, it |-> it]
    ELSE LET i == NextLive(d, it.di_pos) IN
         IF i = 0
         THEN [kind |-> "stop", key |-> NullKey, ws |-> NoConn, it |-> it]
         ELSE IF it.len = 0
         THEN [kind |-> "error", key |-> NullKey, ws |-> NoConn, it |-> it]
         ELSE [kind |-> "item", key |-> d[i].key, ws |-> d[i].ws,
               it |-> [it EXCEPT !.di_pos = i + 1, !.len = it.len - 1]]

\* ---------------------------------------------------------------- inputs
\* One inbound websocket frame, as receive_json() sees it.
\* recipient_id is a string (None when the field is absent or null) or, with
\* recipient_type "list", a JSON array or object with the items
\* recipient_items, which Python cannot hash.
Frame(shape, type, rid, text_type, text, has_typing, is_typing) ==
    [shape |-> shape, type |-> type, recipient_id |-> rid,
     recipient_type |-> "str", recipient_items |-> <<>>,
     text_type |-> text_type, text |-> text,
     has_is_typing |-> has_typing, is_typing |-> is_typing,
     sender_id |-> None]

\* the frame with a sender_id field of the client's choosing
WithSender(p, s) == [p EXCEPT !.sender_id = s]

\* the frame with a JSON array as recipient_id
WithRecipientList(p, items) ==
    [p EXCEPT !.recipient_id = None, !.recipient_type = "list",
              !.recipient_items = items]

\* " h " and "  "; "\th\n" and a no-break space followed by a tab
Texts == {<<32, 104, 32>>, <<32, 32>>}
TextsToB == {<<9, 104, 10>>, <<160, 9>>}

\* The frames the clients send: messages with text to strip, without
\* recipient, without text and with a text that is no string; typing events
\* with and without is_typing and without recipient; ping; an unknown tag; a
\* frame that is no JSON and one that is no JSON object; message and typing
\* events that name a sender_id; message and typing events whose
\* recipient_id is a JSON array.
Payloads ==
    {Frame("record", "message", r, "str", t, FALSE, FALSE) : r \in Ids, t \in Texts}
    \cup {Frame("record", "message", "b", "str", t, FALSE, FALSE) : t \in TextsToB}
    \cup {Frame("record", "message", None, "str", <<104>>, FALSE, FALSE),
          Frame("record", "message", "a", "absent", <<>>, FALSE, FALSE),
          Frame("record", "message", "a", "other", <<>>, FALSE, FALSE)}
    \cup {Frame("record", "typing", r, "absent", <<>>, TRUE, b) : r \in Ids, b \in BOOLEAN}
    \cup {Frame("record", "typing", r, "absent", <<>>, FALSE, FALSE) : r \in Ids}
    \cup {Frame("record", "typing", None, "absent", <<>>, TRUE, TRUE),
          Frame("record", "ping", None, "absent", <<>>, FALSE, FALSE),
          Frame("record", "unknown", None, "absent", <<>>, FALSE, FALSE),
          Frame("undecodable", "", None, "absent", <<>>, FALSE, FALSE),
          Frame("nonrecord", "", None, "absent", <<>>, FALSE, FALSE)}
    \cup {WithSender(Frame("record", "message", "a", "str", <<104>>, FALSE, FALSE), s) :
              s \in Ids}
    \cup {WithSender(Frame("record", "typing", "b", "absent", <<>>, TRUE, TRUE), s) :
              s \in Ids}
    \cup {WithRecipientList(Frame("record", "message", None, "str", t, FALSE, FALSE),
                            <<"b">>) : t \in {<<104>>, <<32>>}}
    \cup {WithRecipientList(Frame("record", "typing", None, "absent", <<>>, TRUE, TRUE),
                            items) : items \in {<<"b">>, <<>>}}

\* how a failed send on the handler's own socket surfaces: the websocket
\* library raises WebSocketDisconnect or some other exception
SendFailures == {"WebSocketDisconnect", "Exception"}

\* ------------------------------------------------ HTTP endpoints: inputs
\* the rows of table users (init_db) after two registrations; name stands for
\* the columns update_user sets (name, status, gender, avatar_url,
\* notifications_enabled), NULL after auth_telegram
Users ==
    {[id |-> "u1", telegram_id |-> "t1", anonymous_id |-> "a", name |-> None],
     [id |-> "u2", telegram_id |-> "t2", anonymous_id |-> "b", name |-> None]}

NoRow == [id |-> "", telegram_id |-> "", anonymous_id |-> "", name |-> None]

\* telegram_id of the requests: a user and one who has not registered
TelegramIds == {"t1", "t0"}

\* telegram_id and target_anonymous_id of the add_contact requests: the
\* caller's own id, another user, an id no user has, and an unknown caller
AddContacts == {<<"t1", "a">>, <<"t1", "b">>, <<"t1", "z">>, <<"t0", "b">>}

\* telegram_id and contact_anonymous_id of the remove_contact requests
RemoveContacts == {<<"t1", "b">>, <<"t0", "b">>}

\* what random.randint returns in generate_anonymous_id: one id that is
\* taken and one that is free
AnonymousIds == {"b", "z"}

\* telegram_id and update.name of the update_user requests: a new name, no
\* field at all (None), and an unknown caller
UserUpdates == {<<"t1", "x">>, <<"t1", None>>, <<"t0", "x">>}

Reqs == 1..MaxCalls

\* hashlib.sha256(f"{telegram_id}{datetime.now().isoformat()}")[:16] in
\* request r: an id no other request computes
new_user_id(r) == "n" \o ToString(r)

(* One HTTP request: the endpoint (kind), where its handler is (pc), its     *)
(* parameters (name is update.name), the handler's locals (user, the         *)
(* anonymous_id looked up, found for the row of the cursor that is open,     *)
(* result for the rows read and the list returned), the lock its database    *)
(* connection holds, and the response.  stored_before, users_before and      *)
(* overlapped record what the store held when the request arrived and        *)
(* whether another request was in flight during this one.                    *)
NoCall == [kind |-> "", pc |-> "idle", telegram_id |-> "", target |-> "",
           name |-> None,
           user |-> NoRow, anonymous_id |-> "", found |-> FALSE, lock |-> "none",
           result |-> {}, status |-> 0, detail |-> "",
           stored_before |-> FALSE, users_before |-> {}, overlapped |-> FALSE]

(* Strings of init_data.  A hex digest is named by what was hashed (SHA-256  *)
(* is taken to be collision-free) and by the case of its letters; every      *)
(* other string is named by its text.                                        *)
Str(text) == [kind |-> "text", text |-> text, token |-> "", lines |-> <<>>]

Hex(token, lines, case) == [kind |-> "hex", text |-> case, token |-> token, lines |-> lines]

\* str.upper() / str.lower() of a string
Upper(v) == IF v.kind = "hex" THEN [v EXCEPT !.text = "upper"] ELSE v
Lower(v) == IF v.kind = "hex" THEN [v EXCEPT !.text = "lower"] ELSE v

\* values of TELEGRAM_BOT_TOKEN ("" is not configured) and a token of someone else
Tokens == {"", "bot-token"}
OtherToken == "other-token"

\* the keys of init_data besides hash, in sorted() order, and their values:
\* the first user value is no JSON
SortedKeys == <<"auth_date", "user">>
FieldValues == [auth_date |-> {"1700000000"}, user |-> {"{", "{\"id\": 7}"}]

\* '\n'.join(f'{k}={v}' ...) of the fields with keys K: the lines, in order
RECURSIVE Lines(_, _, _)
Lines(f, K, i) ==
    IF i > Len(SortedKeys) THEN <<>>
    ELSE (IF SortedKeys[i] \in K THEN <<<<SortedKeys[i], f[SortedKeys[i]].text>>>> ELSE <<>>)
         \o Lines(f, K, i + 1)

DataFields ==
    {<<SortedKeys[i], Str(v)>> : i \in {1}, v \in FieldValues.auth_date}
    \cup {<<SortedKeys[i], Str(v)>> : i \in {2}, v \in FieldValues.user}

\* the sets of data fields an init_data can carry
FieldSets ==
    UNION {[K -> {p[2] : p \in DataFields}] : K \in SUBSET {"auth_date", "user"}}

WellTyped(f) == \A k \in DOMAIN f : <<k, f[k]>> \in DataFields

\* the hash values the clients supply: the digest of some data under the
\* configured or another token, in lower or upper case; no hex; empty
HashValues ==
    {Hex(t, Lines(f, DOMAIN f, 1), c) :
        t \in {"bot-token", OtherToken},
        f \in {g \in FieldSets : WellTyped(g)},
        c \in {"lower", "upper"}}
    \cup {Str(""), Str("no-hex")}

\* init_data after parse_qsl: a list of (key, value) pairs
RECURSIVE SeqsUpTo(_, _)
SeqsUpTo(S, n) ==
    IF n = 0 THEN {<<>>}
    ELSE LET shorter == SeqsUpTo(S, n - 1)
         IN  shorter \cup {Append(q, x) : q \in shorter, x \in S}

InitDatas == SeqsUpTo(DataFields \cup {<<"hash", h>> : h \in HashValues}, MaxFields)

NotCalled == [called |-> FALSE, ok |-> FALSE, user |-> ""]

\* ----------------------------------------------------------------- state
VARIABLES
    active_connections,  \* manager.active_connections (dict user_id -> WebSocket)
    typing_users,        \* manager.typing_users (dict recipient_id -> set of ids)
    pc,                  \* where each connection's handler task is
    uid,                 \* the anonymous_id of each connection's handler
    alive,               \* the client end of each handle is still there
    bcast,               \* the broadcast_status call a handler is inside
    pending,             \* the inbound event a handler is processing, or the
                         \* message event it has just dropped
    inbox,               \* what each client has received, in order
    origin,              \* for each received event: the handler that sent it and for which frame
    nrecv,               \* number of inbound frames each handler has received
    accepted,            \* number of message events each handler has accepted
    cleanup,             \* the cleanup calls each handler has made, in order
    last_call,           \* per id: the last connect/disconnect call that was made
    outstanding,         \* pairs <<S, R>> with an unacknowledged typing=true
    contacts,            \* the rows of table contacts, in insertion order
    users,               \* the rows of table users
    calls,               \* the HTTP requests: where each one is
    bot_token,           \* TELEGRAM_BOT_TOKEN
    init_data,           \* the argument of the validate_telegram_data call
    validated            \* what validate_telegram_data returned

ws_vars == <<active_connections, typing_users, pc, uid, alive, bcast, pending,
             inbox, origin, nrecv, accepted, cleanup, last_call, outstanding>>

http_vars == <<contacts, users, calls, bot_token, init_data, validated>>

vars == <<ws_vars, http_vars>>

NoBcast == [kind |-> "stop", it |-> dict_iter(<<>>), ws |-> NoConn, key |-> NullKey, status |-> "",
            snapshot |-> {}, stayed |-> {}, sent_to |-> {}]

NoPending == [type |-> "", recipient_id |-> None, text |-> <<>>, is_typing |-> FALSE,
              ws |-> NoConn, live |-> FALSE, sent |-> FALSE, timestamp |-> 0]

\* the manager after construction, for connections C and ids I
InitManager(C, I) ==
    /\ active_connections = <<>>
    /\ typing_users = <<>>
    /\ pc = [c \in C |-> "new"]
    /\ uid = [c \in C |-> None]
    /\ alive = [c \in C |-> FALSE]
    /\ bcast = [c \in C |-> NoBcast]
    /\ pending = [c \in C |-> NoPending]
    /\ inbox = [c \in C |-> <<>>]
    /\ origin = [c \in C |-> <<>>]
    /\ nrecv = [c \in C |-> 0]
    /\ accepted = [c \in C |-> 0]
    /\ cleanup = [c \in C |-> <<>>]
    /\ last_call = [i \in I |-> "none"]
    /\ outstanding = {}

\* the database after init_db and the registrations of U, with the requests
\* R to come
InitStore(R, U) ==
    /\ contacts = <<>>
    /\ users = U
    /\ calls = [r \in R |-> NoCall]

Init ==
    /\ InitManager(Conns, Ids)
    /\ InitStore({}, {})
    /\ bot_token = ""
    /\ init_data = <<>>
    /\ validated = NotCalled

\* ------------------------------------------------------ ConnectionManager
is_online(user_id) == dict_contains(active_connections, user_id)

get_online_users == dict_key_list(active_connections)

\* (fault: is_typing = False does not discard the sender)
set_typing_add_only(t, sender_id, recipient_id, is_typing) ==
    LET t1 == [r \in DOMAIN t \cup {recipient_id} |->
                  IF r \in DOMAIN t THEN t[r] ELSE {}]
    IN  [t1 EXCEPT ![recipient_id] = IF is_typing THEN @ \cup {sender_id} ELSE @]

\* set_typing(sender_id, recipient_id, is_typing) on the dict t
set_typing(t, sender_id, recipient_id, is_typing) ==
    LET t1 == [r \in DOMAIN t \cup {recipient_id} |->
                  IF r \in DOMAIN t THEN t[r] ELSE {}]
    IN  [t1 EXCEPT ![recipient_id] =
            IF is_typing THEN @ \cup {sender_id} ELSE @ \ {sender_id}]

\* disconnect(user_id): what it leaves in active_connections
disconnect_connections(d, user_id) ==
    IF dict_contains(d, user_id) THEN dict_delitem(d, user_id) ELSE d

\* disconnect(user_id): what it leaves in typing_users
disconnect_typing(d, t, user_id) ==
    IF dict_contains(d, user_id)
    THEN [r \in DOMAIN t |-> t[r] \ {user_id}]
    ELSE t

\* send_json(message) on a handle: what the client has received afterwards
\* (fault: a later event overtakes the earlier ones)
send_json_front(box, message) == <<message>> \o box

send_json(box, message) == Append(box, message)

\* the for loop of broadcast_status from one send to the next: items of the
\* subject itself are skipped; ends at the next peer, at the end of the dict
\* or with the RuntimeError of a dict that changed size
RECURSIVE broadcast_next(_, _, _)
broadcast_next(d, it, user_id) ==
    LET r == dict_iternext(d, it) IN
    IF r.kind = "item" /\ r.key = user_id
    THEN broadcast_next(d, r.it, user_id)
    ELSE r

\* broadcast_status(user_id, status) up to its first send
broadcast_status(d, user_id, status) ==
    LET r == broadcast_next(d, dict_iter(d), user_id) IN
    [kind |-> r.kind, it |-> r.it, ws |-> r.ws, key |-> r.key, status |-> status,
     snapshot |-> dict_keys(d) \ {user_id},
     stayed |-> dict_keys(d) \ {user_id},
     sent_to |-> IF r.kind = "item" THEN {r.key} ELSE {}]

\* broadcast_status after the send it was suspended in
broadcast_resume(d, b, user_id) ==
    LET r == broadcast_next(d, b.it, user_id) IN
    [b EXCEPT !.kind = r.kind, !.it = r.it, !.ws = r.ws, !.key = r.key,
              !.sent_to = IF r.kind = "item" THEN @ \cup {r.key} ELSE @]

StatusEvent(user_id, status) == [type |-> "status", user_id |-> user_id, status |-> status]

\* (fault: the envelope names no sender)
MessageEventUnsigned(sender_id, text, timestamp) ==
    [type |-> "message", sender_id |-> None, text |-> text, timestamp |-> timestamp]

MessageEvent(sender_id, text, timestamp) ==
    [type |-> "message", sender_id |-> sender_id, text |-> text, timestamp |-> timestamp]

ReceiptEvent(recipient_id, delivered, timestamp) ==
    [type |-> "message_sent", recipient_id |-> recipient_id,
     delivered |-> delivered, timestamp |-> timestamp]

TypingEvent(sender_id, is_typing) ==
    [type |-> "typing", sender_id |-> sender_id, is_typing |-> is_typing]

PongEvent == [type |-> "pong"]

\* ------------------------------------------------------ websocket_endpoint
\* send_json on handle h raises unless the client is still there
send_succeeds(h) == alive[h]

\* (fault: a failed send is reported as delivered)
send_to_user_true(ok) == TRUE

\* lines 66-71: what send_to_user returns once the send succeeded or raised
send_to_user(ok) == ok

Ended == {"returned", "raised"}

\* where the handler is once broadcast_status(_, status) is at b
AfterBroadcast(b) ==
    IF b.kind = "item"
    THEN (IF b.status = "online" THEN "online_broadcast" ELSE "offline_broadcast")
    ELSE IF b.kind = "stop"
    THEN (IF b.status = "online" THEN "receive" ELSE "returned")
    ELSE "raised"

\* the broadcasts of the other handlers, once user_id may have left the dict d
\* (bookkeeping of the ids registered throughout a broadcast)
OtherBroadcasts(d, user_id) ==
    [c \in DOMAIN bcast |->
        IF pc[c] \in {"online_broadcast", "offline_broadcast"}
           /\ dict_contains(d, user_id)
        THEN [bcast[c] EXCEPT !.stayed = @ \ {user_id}]
        ELSE bcast[c]]

\* line 321: manager.connect(anonymous_id, websocket) from the return of
\* websocket.accept() up to the first send of the "online" broadcast.
\* Connections are numbered in the order they open.
Connect(c, id) ==
    /\ pc[c] = "new"
    /\ \A c2 \in DOMAIN pc : c2 < c => pc[c2] # "new"
    /\ LET d == dict_setitem(active_connections, id, c)
           b == broadcast_status(d, id, "online")
       IN  /\ active_connections' = d
           /\ bcast' = [bcast EXCEPT ![c] = IF b.kind = "item" THEN b ELSE NoBcast]
           /\ pc' = [pc EXCEPT ![c] = AfterBroadcast(b)]
    /\ uid' = [uid EXCEPT ![c] = id]
    /\ alive' = [alive EXCEPT ![c] = TRUE]
    /\ last_call' = [last_call EXCEPT ![id] = "register"]
    /\ UNCHANGED <<typing_users, pending, inbox, origin, nrecv, accepted, cleanup, outstanding>>
    /\ UNCHANGED http_vars

\* lines 51-56: the send a broadcast was suspended in completes (a failure is
\* swallowed) and the loop runs to its next send, its end or its RuntimeError
BroadcastSent(c) ==
    /\ pc[c] \in {"online_broadcast", "offline_broadcast"}
    /\ LET h == bcast[c].ws
           b == broadcast_resume(active_connections, bcast[c], uid[c])
       IN  /\ inbox' = IF send_succeeds(h)
                       THEN [inbox EXCEPT ![h] =
                                send_json(@, StatusEvent(uid[c], bcast[c].status))]
                       ELSE inbox
           /\ origin' = IF send_succeeds(h)
                        THEN [origin EXCEPT ![h] = send_json(@, [conn |-> c, seq |-> 0])]
                        ELSE origin
           /\ bcast' = [bcast EXCEPT ![c] = IF b.kind = "item" THEN b ELSE NoBcast]
           /\ pc' = [pc EXCEPT ![c] = AfterBroadcast(b)]
           /\ alive' = [alive EXCEPT ![c] = IF AfterBroadcast(b) \in Ended THEN FALSE ELSE @]
    /\ UNCHANGED <<active_connections, typing_users, uid, pending, nrecv, accepted,
                   cleanup, last_call, outstanding>>
    /\ UNCHANGED http_vars

\* the client closes its end, or the network drops the connection
PeerClose(c) ==
    /\ pc[c] \notin {"new"} \cup Ended
    /\ alive[c]
    /\ alive' = [alive EXCEPT ![c] = FALSE]
    /\ UNCHANGED <<active_connections, typing_users, pc, uid, bcast, pending, inbox,
                   origin, nrecv, accepted, cleanup, last_call, outstanding>>
    /\ UNCHANGED http_vars

\* lines 339-341: except WebSocketDisconnect, up to the first send of the
\* "offline" broadcast
ExceptWebSocketDisconnect(c) ==
    LET d == disconnect_connections(active_connections, uid[c])
        b == broadcast_status(d, uid[c], "offline")
    IN  /\ active_connections' = d
        /\ typing_users' = disconnect_typing(active_connections, typing_users, uid[c])
        /\ bcast' = [OtherBroadcasts(active_connections, uid[c]) EXCEPT
                         ![c] = IF b.kind = "item" THEN b ELSE NoBcast]
        /\ pc' = [pc EXCEPT ![c] = AfterBroadcast(b)]
        /\ alive' = [alive EXCEPT ![c] = FALSE]
        /\ cleanup' = [cleanup EXCEPT ![c] = @ \o <<"unregister", "broadcast_offline">>]
        /\ last_call' = [last_call EXCEPT ![uid[c]] = "unregister"]
        /\ outstanding' = {p \in outstanding : p[1] # uid[c]}

\* lines 342-344: except Exception
ExceptException(c) ==
    /\ active_connections' = disconnect_connections(active_connections, uid[c])
    /\ typing_users' = disconnect_typing(active_connections, typing_users, uid[c])
    /\ bcast' = OtherBroadcasts(active_connections, uid[c])
    /\ pc' = [pc EXCEPT ![c] = "returned"]
    /\ alive' = [alive EXCEPT ![c] = FALSE]
    /\ cleanup' = [cleanup EXCEPT ![c] = @ \o <<"unregister">>]
    /\ last_call' = [last_call EXCEPT ![uid[c]] = "unregister"]
    /\ outstanding' = {p \in outstanding : p[1] # uid[c]}

\* line 324 on a closed connection: receive_json raises WebSocketDisconnect
ReceiveDisconnect(c) ==
    /\ pc[c] = "receive"
    /\ ~alive[c]
    /\ ExceptWebSocketDisconnect(c)
    /\ UNCHANGED <<uid, pending, inbox, origin, nrecv, accepted>>
    /\ UNCHANGED http_vars

\* data.get('text', '').strip() of a frame
FrameText(p) == Strip(IF p.text_type = "str" THEN p.text ELSE <<>>)

\* (fault: a missing is_typing counts as False)
FrameIsTypingOrFalse(p) == p.has_is_typing /\ p.is_typing

\* data.get('is_typing', True)
FrameIsTyping(p) == IF p.has_is_typing THEN p.is_typing ELSE TRUE

\* `if recipient_id` (line 327, line 334): an empty array is falsy as well
RecipientTruthy(p) ==
    IF p.recipient_type = "list" THEN p.recipient_items # <<>>
    ELSE Truthy(p.recipient_id)

\* line 327 / line 334: the event passes the test on its fields
Passes(p) ==
    \/ p.type = "message" /\ RecipientTruthy(p) /\ FrameText(p) # <<>>
    \/ p.type = "typing" /\ RecipientTruthy(p)

\* receive_json or the dispatch raises: the frame is no JSON, is no dict
\* (data.get fails), its text is no string (.strip() fails), or its
\* recipient_id passes the test and cannot be hashed (line 75: TypeError of
\* `recipient_id not in self.typing_users`, before anything is changed)
Raises(p) ==
    \/ p.shape # "record"
    \/ p.type = "message" /\ p.text_type = "other"
    \/ Passes(p) /\ p.recipient_type = "list"

\* line 327 / line 334: the event has its required fields and is handled
Accepted(p) == ~Raises(p) /\ Passes(p)

RECURSIVE FramesOf(_)
FramesOf(S) == IF S = {} THEN 0
               ELSE LET c == CHOOSE x \in S : TRUE IN nrecv[c] + FramesOf(S \ {c})

\* lines 324-338: one inbound frame is received and dispatched, up to the
\* next await.  datetime.now() is the handler's frame count.
Receive(c, p) ==
    /\ pc[c] = "receive"
    /\ alive[c]
    /\ FramesOf(DOMAIN nrecv) < MaxEvents
    /\ nrecv' = [nrecv EXCEPT ![c] = @ + 1]
    /\ UNCHANGED <<uid, inbox, origin>>
    /\ IF Raises(p)
       THEN /\ ExceptException(c)
            /\ UNCHANGED <<pending, accepted>>
       ELSE /\ UNCHANGED <<active_connections, alive, bcast, cleanup, last_call>>
            /\ IF Accepted(p)
               THEN LET r == p.recipient_id
                        live == dict_contains(active_connections, r)
                        typ == IF p.type = "message" THEN FALSE ELSE FrameIsTyping(p)
                        next == IF live THEN "send_to_user"
                                ELSE IF p.type = "message" THEN "send_receipt"
                                ELSE "receive"
                    IN  /\ typing_users' = set_typing(typing_users, uid[c], r, typ)
                        /\ outstanding' = IF typ THEN outstanding \cup {<<uid[c], r>>}
                                          ELSE outstanding \ {<<uid[c], r>>}
                        /\ accepted' = [accepted EXCEPT ![c] =
                                           IF p.type = "message" THEN @ + 1 ELSE @]
                        /\ pending' = [pending EXCEPT ![c] =
                              IF next = "receive" THEN NoPending
                              ELSE [type |-> p.type, recipient_id |-> r,
                                    text |-> IF p.type = "message" THEN FrameText(p)
                                             ELSE <<>>,
                                    is_typing |-> typ,
                                    ws |-> IF live
                                           THEN dict_getitem(active_connections, r)
                                           ELSE NoConn,
                                    live |-> live, sent |-> FALSE,
                                    timestamp |-> nrecv[c] + 1]]
                        /\ pc' = [pc EXCEPT ![c] = next]
               ELSE /\ UNCHANGED <<typing_users, outstanding, accepted>>
                    /\ pending' = [pending EXCEPT ![c] =
                          IF p.type = "ping" THEN [NoPending EXCEPT !.type = "ping"]
                          ELSE IF p.type = "message" /\ RecipientTruthy(p)
                          THEN [NoPending EXCEPT !.type = "message",
                                                 !.text = FrameText(p)]
                          ELSE NoPending]
                    /\ pc' = [pc EXCEPT ![c] =
                          IF p.type = "ping" THEN "send_pong" ELSE "receive"]
    /\ UNCHANGED http_vars

\* lines 66-71: the send to the recipient's handle completes or fails; then
\* line 331 (message) or back to line 324 (typing)
SendToUserDone(c) ==
    /\ pc[c] = "send_to_user"
    /\ LET h == pending[c].ws
           e == IF pending[c].type = "message"
                THEN MessageEvent(uid[c], pending[c].text, pending[c].timestamp)
                ELSE TypingEvent(uid[c], pending[c].is_typing)
       IN  /\ inbox' = IF send_succeeds(h) THEN [inbox EXCEPT ![h] = send_json(@, e)] ELSE inbox
           /\ origin' = IF send_succeeds(h)
                        THEN [origin EXCEPT ![h] =
                                 send_json(@, [conn |-> c, seq |-> pending[c].timestamp])]
                        ELSE origin
           /\ pending' = [pending EXCEPT ![c] =
                             IF pending[c].type = "message"
                             THEN [@ EXCEPT !.sent = send_to_user(send_succeeds(h))]
                             ELSE NoPending]
    /\ pc' = [pc EXCEPT ![c] =
                 IF pending[c].type = "message" THEN "send_receipt" ELSE "receive"]
    /\ UNCHANGED <<active_connections, typing_users, uid, alive, bcast, nrecv, accepted,
                   cleanup, last_call, outstanding>>
    /\ UNCHANGED http_vars

\* line 331 / line 338: the send on the handler's own socket completes, or
\* fails because the client is gone
OwnSendDone(c, failure) ==
    /\ pc[c] \in {"send_receipt", "send_pong"}
    /\ UNCHANGED <<uid, nrecv, accepted>>
    /\ pending' = [pending EXCEPT ![c] = NoPending]
    /\ IF send_succeeds(c)
       THEN LET e == IF pc[c] = "send_pong" THEN PongEvent
                     ELSE ReceiptEvent(pending[c].recipient_id, pending[c].sent,
                                       pending[c].timestamp)
            IN  /\ inbox' = [inbox EXCEPT ![c] = send_json(@, e)]
                /\ origin' = [origin EXCEPT ![c] =
                                 send_json(@, [conn |-> c, seq |-> pending[c].timestamp])]
                /\ pc' = [pc EXCEPT ![c] = "receive"]
                /\ UNCHANGED <<active_connections, typing_users, alive, bcast, cleanup,
                               last_call, outstanding>>
       ELSE /\ UNCHANGED <<inbox, origin>>
            /\ IF failure = "WebSocketDisconnect"
               THEN ExceptWebSocketDisconnect(c)
               ELSE ExceptException(c)
    /\ UNCHANGED http_vars

\* the handlers among C that wait in receive_json (line 324) on an open
\* connection while the clients have frames left to send
Receivers(C, frames) ==
    IF FramesOf(DOMAIN nrecv) < frames
    THEN {c \in C : pc[c] = "receive" /\ alive[c]}
    ELSE {}

Next ==
    \/ \E c \in Conns, id \in Ids : Connect(c, id)
    \/ \E c \in Conns : BroadcastSent(c)
    \/ \E c \in Conns : PeerClose(c)
    \/ \E c \in Conns : ReceiveDisconnect(c)
    \/ \E c \in Receivers(Conns, MaxEvents), p \in Payloads : Receive(c, p)
    \/ \E c \in Conns : SendToUserDone(c)
    \/ \E c \in Conns, failure \in SendFailures : OwnSendDone(c, failure)

Spec == Init /\ [][Next]_vars

(* Three connections under up to three ids, while all of them stay open:   *)
(* no client closes and no frame makes a handler raise.                     *)
OpenFrames == {p \in Payloads : ~Raises(p)}

ReceiveTrio(c, p) ==
    /\ FramesOf(DOMAIN nrecv) < MaxTrioEvents
    /\ Receive(c, p)

NextTrio ==
    \/ \E c \in AllConns, id \in AllIds : Connect(c, id)
    \/ \E c \in AllConns : BroadcastSent(c)
    \/ \E c \in Receivers(AllConns, MaxTrioEvents), p \in OpenFrames : ReceiveTrio(c, p)
    \/ \E c \in AllConns : SendToUserDone(c)
    \/ \E c \in AllConns, failure \in SendFailures : OwnSendDone(c, failure)

InitTrio ==
    /\ InitManager(AllConns, AllIds)
    /\ InitStore({}, {})
    /\ bot_token = ""
    /\ init_data = <<>>
    /\ validated = NotCalled

SpecTrio == InitTrio /\ [][NextTrio]_vars

\* --------------------------------------------------------------- database
(* Every request opens an SQLite connection of its own (aiosqlite.connect,  *)
(* rollback journal, implicit transactions) and every execute, fetchone,    *)
(* commit and close is an await, so requests interleave between them.       *)
(* A connection holds                                                       *)
(*   "shared"   from the execute of a SELECT that found a row to the        *)
(*              fetchone that reads it,                                     *)
(*   "reserved" from its INSERT, UPDATE or DELETE to the end of its         *)
(*              transaction;                                                *)
(*              the change is invisible to the other connections,           *)
(*   "pending"  from a commit that found another connection reading to the  *)
(*              end of its transaction.                                     *)
(* A statement that cannot get its lock waits for it; after the busy        *)
(* timeout (5 s) it raises OperationalError "database is locked".  An       *)
(* exception other than HTTPException is answered with status 500.  A       *)
(* transaction that is open when the connection is closed is rolled back.   *)

\* a SELECT can start: no other connection is about to commit
CanRead(r) == \A r2 \in Reqs \ {r} : calls[r2].lock # "pending"

\* an INSERT, UPDATE or DELETE can start: no other connection has an open
\* transaction
CanWrite(r) == \A r2 \in Reqs \ {r} : calls[r2].lock \notin {"reserved", "pending"}

\* a commit can complete: no other connection is reading
CanCommit(r) == \A r2 \in Reqs \ {r} : calls[r2].lock # "shared"

\* the handler of r is between its first and its last statement
InFlight(r) == calls[r].pc \notin {"idle", "done"}

\* SELECT ... FROM users WHERE telegram_id = ?  (fetchone)
select_user_by_telegram_id(rows, telegram_id) ==
    IF \E u \in rows : u.telegram_id = telegram_id
    THEN CHOOSE u \in rows : u.telegram_id = telegram_id
    ELSE NoRow

\* the columns id, anonymous_id of a row (with the telegram_id it was
\* selected by)
id_and_anonymous_id(row) == [row EXCEPT !.name = None]

\* the column id of a row (with the telegram_id it was selected by)
id_only(row) == [row EXCEPT !.anonymous_id = "", !.name = None]

\* SELECT id FROM users WHERE anonymous_id = ?  (fetchone is not None)
select_user_by_anonymous_id(rows, anonymous_id) ==
    \E u \in rows : u.anonymous_id = anonymous_id

\* SELECT id FROM contacts WHERE user_id = ? AND contact_anonymous_id = ?
select_contact(rows, user_id, contact_anonymous_id) ==
    \E i \in 1..Len(rows) :
        rows[i] = [user_id |-> user_id, contact_anonymous_id |-> contact_anonymous_id]

\* DELETE FROM contacts WHERE user_id = ? AND contact_anonymous_id = ?
RECURSIVE delete_contact(_, _)
delete_contact(rows, row) ==
    IF rows = <<>> THEN <<>>
    ELSE (IF Head(rows) = row THEN <<>> ELSE <<Head(rows)>>)
         \o delete_contact(Tail(rows), row)

\* UPDATE users SET name = ? WHERE telegram_id = ?
update_users(rows, telegram_id, name) ==
    {IF u.telegram_id = telegram_id THEN [u EXCEPT !.name = name] ELSE u : u \in rows}

\* SELECT c.contact_anonymous_id, u.name, ... FROM contacts c LEFT JOIN users u
\* ON c.contact_anonymous_id = u.anonymous_id WHERE c.user_id = ?  (fetchall;
\* the order by added_at is left out: a set)
select_contacts(crows, urows, user_id) ==
    {[anonymous_id |-> crows[i].contact_anonymous_id,
      name |-> IF \E u \in urows : u.anonymous_id = crows[i].contact_anonymous_id
               THEN (CHOOSE u \in urows :
                        u.anonymous_id = crows[i].contact_anonymous_id).name
               ELSE None] :
        i \in {j \in 1..Len(crows) : crows[j].user_id = user_id}}

\* (fault: the table has no UNIQUE constraint)
unique_violated_never(rows, row) == FALSE

\* UNIQUE(user_id, contact_anonymous_id): the INSERT of row raises IntegrityError
unique_violated(rows, row) == \E i \in 1..Len(rows) : rows[i] = row

\* id PRIMARY KEY, telegram_id UNIQUE, anonymous_id UNIQUE of table users
users_unique_violated(rows, row) ==
    \E u \in rows : \/ u.id = row.id
                    \/ u.telegram_id = row.telegram_id
                    \/ u.anonymous_id = row.anonymous_id

\* await db.execute(SELECT ...): the cursor is open while it has a row
execute_select(call, found, next) ==
    [call EXCEPT !.pc = next, !.found = found,
                 !.lock = IF found THEN "shared" ELSE "none"]

\* raise HTTPException(...) inside `async with`: the connection is closed next
HTTPException(call, status, detail) ==
    [call EXCEPT !.pc = "close", !.status = status, !.detail = detail]

\* an exception of sqlite3 leaves the handler: response 500
Unhandled(call, exception) == HTTPException(call, 500, exception)

\* a request arrives: it and the requests in flight overlap (recorded for the
\* add_contact requests)
Arrive(r, call) ==
    [r2 \in Reqs |->
        IF r2 = r
        THEN [call EXCEPT !.overlapped =
                 call.kind = "add_contact" /\ \E r3 \in Reqs : InFlight(r3)]
        ELSE IF InFlight(r2) /\ calls[r2].kind = "add_contact"
        THEN [calls[r2] EXCEPT !.overlapped = TRUE]
        ELSE calls[r2]]

\* the contacts row request r is about
ContactRow(call) == [user_id |-> call.user.id, contact_anonymous_id |-> call.target]

\* the users row auth_telegram inserts
UserRow(r) == [id |-> new_user_id(r), telegram_id |-> calls[r].telegram_id,
               anonymous_id |-> calls[r].anonymous_id, name |-> None]

\* the request that arrives next: requests are numbered in the order they
\* arrive (none when MaxCalls requests have arrived)
Arriving == {r \in Reqs : /\ calls[r].pc = "idle"
                          /\ \A r2 \in Reqs : r2 < r => calls[r2].pc # "idle"}

\* the statement request r waits to run cannot get its lock
Blocked(r) ==
    \/ /\ calls[r].pc \in {"select_user", "select_target", "select_contact",
                           "generate_select", "select_updated", "select_contacts"}
       /\ ~CanRead(r)
    \/ calls[r].pc \in {"insert", "delete", "update"} /\ ~CanWrite(r)
    \/ calls[r].pc = "commit" /\ calls[r].lock = "pending" /\ ~CanCommit(r)

\* the busy timeout of a waiting statement expires: OperationalError
BusyTimeout(r) ==
    /\ Blocked(r)
    /\ calls' = [calls EXCEPT ![r] = Unhandled(@, "database is locked")]
    /\ UNCHANGED <<contacts, users>>
    /\ UNCHANGED <<ws_vars, bot_token, init_data, validated>>

\* the exit of `async with aiosqlite.connect(...)`: the connection is closed,
\* an open transaction is rolled back, and the response goes out
Close(r) ==
    /\ calls[r].pc = "close"
    /\ calls' = [calls EXCEPT ![r] = [@ EXCEPT !.pc = "done", !.lock = "none"]]
    /\ UNCHANGED <<contacts, users>>
    /\ UNCHANGED <<ws_vars, bot_token, init_data, validated>>

\* await db.commit() of a request whose transaction is open: it completes
\* when no other connection reads, otherwise the connection takes the pending
\* lock and waits
commit(r, detail) ==
    IF CanCommit(r)
    THEN calls' = [calls EXCEPT ![r] =
                      [@ EXCEPT !.pc = "close", !.lock = "none", !.status = 200,
                                !.detail = detail]]
    ELSE /\ calls[r].lock = "reserved"
         /\ calls' = [calls EXCEPT ![r] = [@ EXCEPT !.lock = "pending"]]

\* ------------------------------------------------------------ add_contact
\* POST /contacts/add arrives and opens its connection (lines 270-273)
AddContactCall(r, telegram_id, target) ==
    /\ r \in Arriving
    /\ calls' = Arrive(r,
          [NoCall EXCEPT !.kind = "add_contact",
                         !.pc = "select_user",
                         !.telegram_id = telegram_id,
                         !.target = target,
                         !.users_before = {id_and_anonymous_id(u) : u \in users},
                         !.stored_before =
                             select_contact(contacts,
                                 select_user_by_telegram_id(users, telegram_id).id,
                                 target)])
    /\ UNCHANGED <<contacts, users>>
    /\ UNCHANGED <<ws_vars, bot_token, init_data, validated>>

\* line 274: the SELECT of the caller's row is executed
SelectUser(r) ==
    /\ calls[r].kind = "add_contact" /\ calls[r].pc = "select_user"
    /\ CanRead(r)
    /\ LET user == id_and_anonymous_id(
                       select_user_by_telegram_id(users, calls[r].telegram_id)) IN
       calls' = [calls EXCEPT ![r] =
                    [execute_select(@, user # NoRow, "fetch_user") EXCEPT !.user = user]]
    /\ UNCHANGED <<contacts, users>>
    /\ UNCHANGED <<ws_vars, bot_token, init_data, validated>>

\* lines 275-276: fetchone, and 404 without a row
FetchUser(r) ==
    /\ calls[r].kind = "add_contact" /\ calls[r].pc = "fetch_user"
    /\ calls' = [calls EXCEPT ![r] =
          IF ~calls[r].found
          THEN HTTPException([@ EXCEPT !.lock = "none"], 404, "User not found")
          ELSE [@ EXCEPT !.pc = "select_target", !.lock = "none"]]
    /\ UNCHANGED <<contacts, users>>
    /\ UNCHANGED <<ws_vars, bot_token, init_data, validated>>

\* line 278: the SELECT of the target's row is executed
SelectTarget(r) ==
    /\ calls[r].pc = "select_target"
    /\ CanRead(r)
    /\ calls' = [calls EXCEPT ![r] =
          execute_select(@, select_user_by_anonymous_id(users, calls[r].target),
                         "fetch_target")]
    /\ UNCHANGED <<contacts, users>>
    /\ UNCHANGED <<ws_vars, bot_token, init_data, validated>>

\* lines 279-280: fetchone, 404 without a row, then the check against the
\* caller's own id
FetchTarget(r) ==
    /\ calls[r].pc = "fetch_target"
    /\ calls' = [calls EXCEPT ![r] =
          IF ~calls[r].found
          THEN HTTPException([@ EXCEPT !.lock = "none"], 404, "Target user not found")
          ELSE IF calls[r].user.anonymous_id = calls[r].target
          THEN HTTPException([@ EXCEPT !.lock = "none"], 400, "Cannot add yourself")
          ELSE [@ EXCEPT !.pc = "select_contact", !.lock = "none"]]
    /\ UNCHANGED <<contacts, users>>
    /\ UNCHANGED <<ws_vars, bot_token, init_data, validated>>

\* line 282: the SELECT of the duplicate check is executed
SelectContact(r) ==
    /\ calls[r].pc = "select_contact"
    /\ CanRead(r)
    /\ calls' = [calls EXCEPT ![r] =
          execute_select(@, select_contact(contacts, calls[r].user.id, calls[r].target),
                         "fetch_contact")]
    /\ UNCHANGED <<contacts, users>>
    /\ UNCHANGED <<ws_vars, bot_token, init_data, validated>>

\* line 283: fetchone, and 400 with a row
FetchContact(r) ==
    /\ calls[r].pc = "fetch_contact"
    /\ calls' = [calls EXCEPT ![r] =
          IF calls[r].found
          THEN HTTPException([@ EXCEPT !.lock = "none"], 400, "Contact already added")
          ELSE [@ EXCEPT !.pc = "insert", !.lock = "none"]]
    /\ UNCHANGED <<contacts, users>>
    /\ UNCHANGED <<ws_vars, bot_token, init_data, validated>>

\* lines 285-287: the INSERT is executed in a transaction of its own; an
\* IntegrityError leaves the handler with the transaction open
Insert(r) ==
    /\ calls[r].kind = "add_contact" /\ calls[r].pc = "insert"
    /\ CanWrite(r)
    /\ calls' = [calls EXCEPT ![r] =
          IF unique_violated(contacts, ContactRow(calls[r]))
          THEN Unhandled([@ EXCEPT !.lock = "reserved"], "IntegrityError")
          ELSE [@ EXCEPT !.pc = "commit", !.lock = "reserved"]]
    /\ UNCHANGED <<contacts, users>>
    /\ UNCHANGED <<ws_vars, bot_token, init_data, validated>>

\* lines 288-289: the commit stores the row
Commit(r) ==
    /\ calls[r].kind = "add_contact" /\ calls[r].pc = "commit"
    /\ commit(r, "Contact added")
    /\ contacts' = IF CanCommit(r) THEN Append(contacts, ContactRow(calls[r]))
                   ELSE contacts
    /\ UNCHANGED users
    /\ UNCHANGED <<ws_vars, bot_token, init_data, validated>>

\* --------------------------------------------------------- remove_contact
\* DELETE /contacts/{contact_anonymous_id} arrives (lines 291-293)
RemoveContactCall(r, telegram_id, target) ==
    /\ r \in Arriving
    /\ calls' = Arrive(r,
          [NoCall EXCEPT !.kind = "remove_contact",
                         !.pc = "select_user",
                         !.telegram_id = telegram_id,
                         !.target = target])
    /\ UNCHANGED <<contacts, users>>
    /\ UNCHANGED <<ws_vars, bot_token, init_data, validated>>

\* line 294: the SELECT of the caller's row is executed
RemoveSelectUser(r) ==
    /\ calls[r].kind = "remove_contact" /\ calls[r].pc = "select_user"
    /\ CanRead(r)
    /\ LET user == id_only(select_user_by_telegram_id(users, calls[r].telegram_id)) IN
       calls' = [calls EXCEPT ![r] =
                    [execute_select(@, user # NoRow, "fetch_user") EXCEPT !.user = user]]
    /\ UNCHANGED <<contacts, users>>
    /\ UNCHANGED <<ws_vars, bot_token, init_data, validated>>

\* lines 295-296: fetchone, and 404 without a row
RemoveFetchUser(r) ==
    /\ calls[r].kind = "remove_contact" /\ calls[r].pc = "fetch_user"
    /\ calls' = [calls EXCEPT ![r] =
          IF ~calls[r].found
          THEN HTTPException([@ EXCEPT !.lock = "none"], 404, "User not found")
          ELSE [@ EXCEPT !.pc = "delete", !.lock = "none"]]
    /\ UNCHANGED <<contacts, users>>
    /\ UNCHANGED <<ws_vars, bot_token, init_data, validated>>

\* line 297: the DELETE is executed in a transaction of its own
Delete(r) ==
    /\ calls[r].pc = "delete"
    /\ CanWrite(r)
    /\ calls' = [calls EXCEPT ![r] = [@ EXCEPT !.pc = "commit", !.lock = "reserved"]]
    /\ UNCHANGED <<contacts, users>>
    /\ UNCHANGED <<ws_vars, bot_token, init_data, validated>>

\* lines 298-299: the commit removes the row
RemoveCommit(r) ==
    /\ calls[r].kind = "remove_contact" /\ calls[r].pc = "commit"
    /\ commit(r, "Contact removed")
    /\ contacts' = IF CanCommit(r) THEN delete_contact(contacts, ContactRow(calls[r]))
                   ELSE contacts
    /\ UNCHANGED users
    /\ UNCHANGED <<ws_vars, bot_token, init_data, validated>>

\* ---------------------------------------------------------- auth_telegram
\* POST /auth/telegram arrives with a telegram_id in its body (lines 175-191)
AuthTelegramCall(r, telegram_id) ==
    /\ r \in Arriving
    /\ calls' = Arrive(r,
          [NoCall EXCEPT !.kind = "auth_telegram",
                         !.pc = "select_user",
                         !.telegram_id = telegram_id])
    /\ UNCHANGED <<contacts, users>>
    /\ UNCHANGED <<ws_vars, bot_token, init_data, validated>>

\* line 192: the SELECT of the user's row is executed
AuthSelectUser(r) ==
    /\ calls[r].kind = "auth_telegram" /\ calls[r].pc = "select_user"
    /\ CanRead(r)
    /\ LET user == select_user_by_telegram_id(users, calls[r].telegram_id) IN
       calls' = [calls EXCEPT ![r] =
                    [execute_select(@, user # NoRow, "fetch_user") EXCEPT !.user = user]]
    /\ UNCHANGED <<contacts, users>>
    /\ UNCHANGED <<ws_vars, bot_token, init_data, validated>>

\* lines 193-204: fetchone; a known user is returned, for a new one the id is
\* computed and generate_anonymous_id opens its connection (line 141)
AuthFetchUser(r) ==
    /\ calls[r].kind = "auth_telegram" /\ calls[r].pc = "fetch_user"
    /\ calls' = [calls EXCEPT ![r] =
          IF calls[r].found
          THEN [@ EXCEPT !.pc = "close", !.lock = "none", !.status = 200,
                         !.detail = "UserResponse"]
          ELSE [@ EXCEPT !.pc = "generate_select", !.lock = "none"]]
    /\ UNCHANGED <<contacts, users>>
    /\ UNCHANGED <<ws_vars, bot_token, init_data, validated>>

\* lines 143-144: generate_anonymous_id draws an id and executes its SELECT
GenerateSelect(r, anonymous_id) ==
    /\ calls[r].pc = "generate_select"
    /\ CanRead(r)
    /\ calls' = [calls EXCEPT ![r] =
          [execute_select(@, select_user_by_anonymous_id(users, anonymous_id),
                          "generate_fetch")
           EXCEPT !.anonymous_id = anonymous_id]]
    /\ UNCHANGED <<contacts, users>>
    /\ UNCHANGED <<ws_vars, bot_token, init_data, validated>>

\* lines 145-146: fetchone; an id that is taken is drawn again, a free one is
\* returned to line 205
GenerateFetch(r) ==
    /\ calls[r].pc = "generate_fetch"
    /\ calls' = [calls EXCEPT ![r] =
          [@ EXCEPT !.pc = IF calls[r].found THEN "generate_select" ELSE "insert",
                    !.lock = "none"]]
    /\ UNCHANGED <<contacts, users>>
    /\ UNCHANGED <<ws_vars, bot_token, init_data, validated>>

\* lines 206-209: the INSERT into users is executed in a transaction of its own
AuthInsert(r) ==
    /\ calls[r].kind = "auth_telegram" /\ calls[r].pc = "insert"
    /\ CanWrite(r)
    /\ calls' = [calls EXCEPT ![r] =
          IF users_unique_violated(users, UserRow(r))
          THEN Unhandled([@ EXCEPT !.lock = "reserved"], "IntegrityError")
          ELSE [@ EXCEPT !.pc = "commit", !.lock = "reserved"]]
    /\ UNCHANGED <<contacts, users>>
    /\ UNCHANGED <<ws_vars, bot_token, init_data, validated>>

\* lines 210-212: the commit stores the user
AuthCommit(r) ==
    /\ calls[r].kind = "auth_telegram" /\ calls[r].pc = "commit"
    /\ commit(r, "UserResponse")
    /\ users' = IF CanCommit(r) THEN users \cup {UserRow(r)} ELSE users
    /\ UNCHANGED contacts
    /\ UNCHANGED <<ws_vars, bot_token, init_data, validated>>

\* ------------------------------------------------------- get_current_user
\* GET /user/me arrives and opens its connection (lines 214-217)
GetCurrentUserCall(r, telegram_id) ==
    /\ r \in Arriving
    /\ calls' = Arrive(r,
          [NoCall EXCEPT !.kind = "get_current_user",
                         !.pc = "select_user",
                         !.telegram_id = telegram_id])
    /\ UNCHANGED <<contacts, users>>
    /\ UNCHANGED <<ws_vars, bot_token, init_data, validated>>

\* line 218: the SELECT of the user's row is executed
GetSelectUser(r) ==
    /\ calls[r].kind = "get_current_user" /\ calls[r].pc = "select_user"
    /\ CanRead(r)
    /\ LET user == select_user_by_telegram_id(users, calls[r].telegram_id) IN
       calls' = [calls EXCEPT ![r] =
                    [execute_select(@, user # NoRow, "fetch_user") EXCEPT !.user = user]]
    /\ UNCHANGED <<contacts, users>>
    /\ UNCHANGED <<ws_vars, bot_token, init_data, validated>>

\* lines 219-227: fetchone, 404 without a row, else the row is returned
GetFetchUser(r) ==
    /\ calls[r].kind = "get_current_user" /\ calls[r].pc = "fetch_user"
    /\ calls' = [calls EXCEPT ![r] =
          IF ~calls[r].found
          THEN HTTPException([@ EXCEPT !.lock = "none"], 404, "User not found")
          ELSE [@ EXCEPT !.pc = "close", !.lock = "none", !.status = 200,
                         !.detail = "UserResponse"]]
    /\ UNCHANGED <<contacts, users>>
    /\ UNCHANGED <<ws_vars, bot_token, init_data, validated>>

\* ------------------------------------------------------------ update_user
\* PUT /user/me arrives with update.name and opens its connection
\* (lines 229-232)
UpdateUserCall(r, telegram_id, name) ==
    /\ r \in Arriving
    /\ calls' = Arrive(r,
          [NoCall EXCEPT !.kind = "update_user",
                         !.pc = "select_user",
                         !.telegram_id = telegram_id,
                         !.name = name])
    /\ UNCHANGED <<contacts, users>>
    /\ UNCHANGED <<ws_vars, bot_token, init_data, validated>>

\* line 233: the SELECT of the user's row is executed
UpdateSelectUser(r) ==
    /\ calls[r].kind = "update_user" /\ calls[r].pc = "select_user"
    /\ CanRead(r)
    /\ LET user == select_user_by_telegram_id(users, calls[r].telegram_id) IN
       calls' = [calls EXCEPT ![r] =
                    [execute_select(@, user # NoRow, "fetch_user") EXCEPT !.user = user]]
    /\ UNCHANGED <<contacts, users>>
    /\ UNCHANGED <<ws_vars, bot_token, init_data, validated>>

\* lines 234-245: fetchone, 404 without a row; the UPDATE is built from the
\* fields that are not None and skipped when there is none
UpdateFetchUser(r) ==
    /\ calls[r].kind = "update_user" /\ calls[r].pc = "fetch_user"
    /\ calls' = [calls EXCEPT ![r] =
          IF ~calls[r].found
          THEN HTTPException([@ EXCEPT !.lock = "none"], 404, "User not found")
          ELSE [@ EXCEPT !.pc = IF calls[r].name # None THEN "update"
                                ELSE "select_updated",
                         !.lock = "none"]]
    /\ UNCHANGED <<contacts, users>>
    /\ UNCHANGED <<ws_vars, bot_token, init_data, validated>>

\* lines 246-247: the UPDATE is executed in a transaction of its own
Update(r) ==
    /\ calls[r].pc = "update"
    /\ CanWrite(r)
    /\ calls' = [calls EXCEPT ![r] = [@ EXCEPT !.pc = "commit", !.lock = "reserved"]]
    /\ UNCHANGED <<contacts, users>>
    /\ UNCHANGED <<ws_vars, bot_token, init_data, validated>>

\* line 248: the commit stores the new name when no other connection reads,
\* otherwise the connection takes the pending lock and waits
UpdateCommit(r) ==
    /\ calls[r].kind = "update_user" /\ calls[r].pc = "commit"
    /\ IF CanCommit(r)
       THEN /\ calls' = [calls EXCEPT ![r] =
                            [@ EXCEPT !.pc = "select_updated", !.lock = "none"]]
            /\ users' = update_users(users, calls[r].telegram_id, calls[r].name)
       ELSE /\ calls[r].lock = "reserved"
            /\ calls' = [calls EXCEPT ![r] = [@ EXCEPT !.lock = "pending"]]
            /\ users' = users
    /\ UNCHANGED contacts
    /\ UNCHANGED <<ws_vars, bot_token, init_data, validated>>

\* line 250: the row is selected again
UpdateSelectAgain(r) ==
    /\ calls[r].pc = "select_updated"
    /\ CanRead(r)
    /\ LET user == select_user_by_telegram_id(users, calls[r].telegram_id) IN
       calls' = [calls EXCEPT ![r] =
                    [execute_select(@, user # NoRow, "fetch_updated") EXCEPT !.user = user]]
    /\ UNCHANGED <<contacts, users>>
    /\ UNCHANGED <<ws_vars, bot_token, init_data, validated>>

\* lines 251-257: fetchone, and the row is returned
UpdateFetchAgain(r) ==
    /\ calls[r].pc = "fetch_updated"
    /\ calls' = [calls EXCEPT ![r] =
          IF ~calls[r].found
          THEN Unhandled([@ EXCEPT !.lock = "none"], "TypeError")
          ELSE [@ EXCEPT !.pc = "close", !.lock = "none", !.status = 200,
                         !.detail = "UserResponse"]]
    /\ UNCHANGED <<contacts, users>>
    /\ UNCHANGED <<ws_vars, bot_token, init_data, validated>>

\* ------------------------------------------------------------ search_user
\* GET /user/search arrives and opens its connection (lines 259-262)
SearchUserCall(r, anonymous_id) ==
    /\ r \in Arriving
    /\ calls' = Arrive(r,
          [NoCall EXCEPT !.kind = "search_user",
                         !.pc = "select_user",
                         !.anonymous_id = anonymous_id])
    /\ UNCHANGED <<contacts, users>>
    /\ UNCHANGED <<ws_vars, bot_token, init_data, validated>>

\* line 263: the SELECT by anonymous_id is executed
SearchSelectUser(r) ==
    /\ calls[r].kind = "search_user" /\ calls[r].pc = "select_user"
    /\ CanRead(r)
    /\ LET found == select_user_by_anonymous_id(users, calls[r].anonymous_id) IN
       calls' = [calls EXCEPT ![r] =
          [execute_select(@, found, "fetch_user") EXCEPT
              !.user = IF found
                       THEN CHOOSE u \in users : u.anonymous_id = calls[r].anonymous_id
                       ELSE NoRow]]
    /\ UNCHANGED <<contacts, users>>
    /\ UNCHANGED <<ws_vars, bot_token, init_data, validated>>

\* lines 264-268: fetchone, 404 without a row, else the row is returned with
\* manager.is_online of its anonymous_id
SearchFetchUser(r) ==
    /\ calls[r].kind = "search_user" /\ calls[r].pc = "fetch_user"
    /\ calls' = [calls EXCEPT ![r] =
          IF ~calls[r].found
          THEN HTTPException([@ EXCEPT !.lock = "none"], 404, "User not found")
          ELSE [@ EXCEPT !.pc = "close", !.lock = "none", !.status = 200,
                         !.detail = "user",
                         !.result = {[anonymous_id |-> calls[r].user.anonymous_id,
                                      name |-> calls[r].user.name,
                                      is_online |-> is_online(calls[r].user.anonymous_id)]}]]
    /\ UNCHANGED <<contacts, users>>
    /\ UNCHANGED <<ws_vars, bot_token, init_data, validated>>

\* ----------------------------------------------------------- get_contacts
\* GET /contacts arrives and opens its connection (lines 301-303)
GetContactsCall(r, telegram_id) ==
    /\ r \in Arriving
    /\ calls' = Arrive(r,
          [NoCall EXCEPT !.kind = "get_contacts",
                         !.pc = "select_user",
                         !.telegram_id = telegram_id])
    /\ UNCHANGED <<contacts, users>>
    /\ UNCHANGED <<ws_vars, bot_token, init_data, validated>>

\* line 305: the SELECT of the caller's id is executed
ContactsSelectUser(r) ==
    /\ calls[r].kind = "get_contacts" /\ calls[r].pc = "select_user"
    /\ CanRead(r)
    /\ LET user == id_only(select_user_by_telegram_id(users, calls[r].telegram_id)) IN
       calls' = [calls EXCEPT ![r] =
                    [execute_select(@, user # NoRow, "fetch_user") EXCEPT !.user = user]]
    /\ UNCHANGED <<contacts, users>>
    /\ UNCHANGED <<ws_vars, bot_token, init_data, validated>>

\* lines 306-307: fetchone, and 404 without a row
ContactsFetchUser(r) ==
    /\ calls[r].kind = "get_contacts" /\ calls[r].pc = "fetch_user"
    /\ calls' = [calls EXCEPT ![r] =
          IF ~calls[r].found
          THEN HTTPException([@ EXCEPT !.lock = "none"], 404, "User not found")
          ELSE [@ EXCEPT !.pc = "select_contacts", !.lock = "none"]]
    /\ UNCHANGED <<contacts, users>>
    /\ UNCHANGED <<ws_vars, bot_token, init_data, validated>>

\* lines 309-313: the SELECT of the caller's contacts is executed
SelectContacts(r) ==
    /\ calls[r].pc = "select_contacts"
    /\ CanRead(r)
    /\ LET rows == select_contacts(contacts, users, calls[r].user.id) IN
       calls' = [calls EXCEPT ![r] =
                    [execute_select(@, rows # {}, "fetch_contacts") EXCEPT
                        !.result = rows]]
    /\ UNCHANGED <<contacts, users>>
    /\ UNCHANGED <<ws_vars, bot_token, init_data, validated>>

\* lines 314-317: fetchall, and the list is returned with manager.is_online
\* of every contact
FetchContacts(r) ==
    /\ calls[r].pc = "fetch_contacts"
    /\ calls' = [calls EXCEPT ![r] =
          [@ EXCEPT !.pc = "close", !.lock = "none", !.status = 200,
                    !.detail = "contacts",
                    !.result = {[anonymous_id |-> c.anonymous_id, name |-> c.name,
                                 is_online |-> is_online(c.anonymous_id)] :
                                   c \in calls[r].result}]]
    /\ UNCHANGED <<contacts, users>>
    /\ UNCHANGED <<ws_vars, bot_token, init_data, validated>>

NextContacts ==
    \/ \E r \in Arriving, c \in AddContacts : AddContactCall(r, c[1], c[2])
    \/ \E r \in Reqs : SelectUser(r)
    \/ \E r \in Reqs : FetchUser(r)
    \/ \E r \in Reqs : SelectTarget(r)
    \/ \E r \in Reqs : FetchTarget(r)
    \/ \E r \in Reqs : SelectContact(r)
    \/ \E r \in Reqs : FetchContact(r)
    \/ \E r \in Reqs : Insert(r)
    \/ \E r \in Reqs : Commit(r)
    \/ \E r \in Arriving, c \in RemoveContacts : RemoveContactCall(r, c[1], c[2])
    \/ \E r \in Reqs : RemoveSelectUser(r)
    \/ \E r \in Reqs : RemoveFetchUser(r)
    \/ \E r \in Reqs : Delete(r)
    \/ \E r \in Reqs : RemoveCommit(r)
    \/ \E r \in Arriving, t \in TelegramIds : AuthTelegramCall(r, t)
    \/ \E r \in Reqs : AuthSelectUser(r)
    \/ \E r \in Reqs : AuthFetchUser(r)
    \/ \E r \in Reqs, a \in AnonymousIds : GenerateSelect(r, a)
    \/ \E r \in Reqs : GenerateFetch(r)
    \/ \E r \in Reqs : AuthInsert(r)
    \/ \E r \in Reqs : AuthCommit(r)
    \/ \E r \in Arriving, t \in TelegramIds : GetCurrentUserCall(r, t)
    \/ \E r \in Reqs : GetSelectUser(r)
    \/ \E r \in Reqs : GetFetchUser(r)
    \/ \E r \in Arriving, u \in UserUpdates : UpdateUserCall(r, u[1], u[2])
    \/ \E r \in Reqs : UpdateSelectUser(r)
    \/ \E r \in Reqs : UpdateFetchUser(r)
    \/ \E r \in Reqs : Update(r)
    \/ \E r \in Reqs : UpdateCommit(r)
    \/ \E r \in Reqs : UpdateSelectAgain(r)
    \/ \E r \in Reqs : UpdateFetchAgain(r)
    \/ \E r \in Arriving, a \in AnonymousIds : SearchUserCall(r, a)
    \/ \E r \in Reqs : SearchSelectUser(r)
    \/ \E r \in Reqs : SearchFetchUser(r)
    \/ \E r \in Arriving, t \in TelegramIds : GetContactsCall(r, t)
    \/ \E r \in Reqs : ContactsSelectUser(r)
    \/ \E r \in Reqs : ContactsFetchUser(r)
    \/ \E r \in Reqs : SelectContacts(r)
    \/ \E r \in Reqs : FetchContacts(r)
    \/ \E r \in Reqs : BusyTimeout(r)
    \/ \E r \in Reqs : Close(r)

\* the manager without websocket connections, the database with Users
InitContacts ==
    /\ InitManager({}, {})
    /\ InitStore(Reqs, Users)
    /\ bot_token = ""
    /\ init_data = <<>>
    /\ validated = NotCalled

SpecContacts == InitContacts /\ [][NextContacts]_vars

\* ------------------------------------------------- validate_telegram_data
\* dict(parse_qsl(init_data)): the last value of each key
dict_of_pairs(s) ==
    [k \in {s[i][1] : i \in 1..Len(s)} |->
        s[CHOOSE i \in 1..Len(s) :
              /\ s[i][1] = k
              /\ \A j \in 1..Len(s) : s[j][1] = k => j <= i][2]]

\* lines 156-158: the lower-case hex HMAC-SHA256 of the sorted fields under
\* the key derived from the bot token
calculated_hash(token, parsed) ==
    Hex(token, Lines(parsed, DOMAIN parsed \ {"hash"}, 1), "lower")

\* (fault: the hashes are compared without regard to case)
hash_equal_ignoring_case(calculated, hash_value) == Lower(calculated) = Lower(hash_value)

\* line 159: calculated_hash == hash_value
hash_equal(calculated, hash_value) == calculated = hash_value

\* json.loads raises on the text
JSONDecodeError(text) == text = "{"

Rejected == [called |-> TRUE, ok |-> FALSE, user |-> ""]

\* validate_telegram_data(init_data): None (Rejected) or {"user": ...}
validate_telegram_data(token, data) ==
    IF token = "" THEN [called |-> TRUE, ok |-> TRUE, user |-> "test_user"]
    ELSE LET parsed == dict_of_pairs(data) IN
         IF "hash" \notin DOMAIN parsed THEN Rejected
         ELSE IF parsed["hash"] = Str("") THEN Rejected
         ELSE IF ~hash_equal(calculated_hash(token, parsed), parsed["hash"]) THEN Rejected
         ELSE LET user == IF "user" \in DOMAIN parsed THEN parsed["user"].text ELSE "{}"
              IN  IF JSONDecodeError(user) THEN Rejected
                  ELSE [called |-> TRUE, ok |-> TRUE, user |-> user]

\* one call of validate_telegram_data
Validate(data) ==
    /\ ~validated.called
    /\ init_data' = data
    /\ validated' = validate_telegram_data(bot_token, data)
    /\ UNCHANGED <<ws_vars, contacts, users, calls, bot_token>>

InitValidate ==
    /\ InitManager(Conns, Ids)
    /\ InitStore({}, {})
    /\ bot_token \in Tokens
    /\ init_data = <<>>
    /\ validated = NotCalled

NextValidate ==
    /\ ~validated.called
    /\ \E data \in InitDatas : Validate(data)

SpecValidate == InitValidate /\ [][NextValidate]_vars

\* ------------------------------------------------------------------ claims
Broadcasting == {"online_broadcast", "offline_broadcast"}

Relayed == {"message", "typing"}

\* the message envelope of handler c's frame number n reached handle h
Reached(c, n, h) ==
    \E j \in 1..Len(inbox[h]) :
        /\ inbox[h][j].type = "message"
        /\ origin[h][j] = [conn |-> c, seq |-> n]

Receipts(c) == {i \in 1..Len(inbox[c]) : inbox[c][i].type = "message_sent"}

\* C1 as stated: every accepted message event yields exactly one message_sent
\* receipt, whose delivered flag is true iff the recipient was registered at
\* the delivery attempt.
C1_DeliveredIffRegistered ==
    \A c \in Conns :
        /\ Cardinality(Receipts(c)) <= accepted[c]
        /\ pc[c] = "send_receipt" => (pending[c].sent <=> pending[c].live)

\* C1 amended: on a connection that stays open every accepted message event
\* yields exactly one message_sent receipt; its delivered flag is true iff the
\* recipient was registered at the delivery attempt and the send through its
\* handle succeeded, that is, iff the envelope reached the recipient's
\* connection.
C1_DeliveredIffSent ==
    \A c \in Conns :
        LET receipts == Receipts(c) IN
        /\ Cardinality(receipts) <= accepted[c]
        /\ (pc[c] = "receive" /\ alive[c]) => Cardinality(receipts) = accepted[c]
        /\ pc[c] = "send_receipt" =>
              (pending[c].sent <=>
                  /\ pending[c].live
                  /\ Reached(c, pending[c].timestamp, pending[c].ws))
        /\ \A i \in receipts :
              /\ inbox[c][i].delivered <=>
                    \E h \in Conns : Reached(c, inbox[c][i].timestamp, h)
              /\ \A j \in receipts :
                    inbox[c][j].timestamp = inbox[c][i].timestamp => j = i

\* a sender holds a receipt with delivered = true and one with delivered = false
\* for a recipient that was registered
C1_Witness ==
    \E c \in Conns :
        /\ \E i \in Receipts(c) : inbox[c][i].delivered
        /\ pc[c] = "send_receipt" /\ pending[c].live /\ ~pending[c].sent

\* C2: is_online(id) holds exactly when the last connect/disconnect call made
\* for id was a connect.
C2_IsOnlineReflectsLastCall ==
    \A id \in Ids : is_online(id) <=> last_call[id] = "register"

\* an id is registered again after an earlier handler of it unregistered it
C2_Witness ==
    \E id \in Ids :
        /\ is_online(id)
        /\ \E c \in Conns : uid[c] = id /\ pc[c] \in Ended /\ cleanup[c] # <<>>
        /\ \E c \in Conns : uid[c] = id /\ pc[c] = "receive"

\* C3: right after any handler calls disconnect(id), id is in no typing set.
C3_UnregisterPurgesTyping ==
    [][\A c \in Conns :
          Len(cleanup'[c]) > Len(cleanup[c]) =>
              \A r \in DOMAIN typing_users' : uid[c] \notin typing_users'[r]]_vars

\* the receive loop of handler c has terminated
LoopExited(c) ==
    \/ pc[c] \in {"offline_broadcast", "returned"}
    \/ pc[c] = "raised" /\ cleanup[c] # <<>>

\* C4: however the receive loop terminates, the handler calls disconnect(id)
\* and then broadcasts the "offline" status of id.
C4_EveryExitBroadcastsOffline ==
    \A c \in Conns :
        LoopExited(c) => cleanup[c] = <<"unregister", "broadcast_offline">>

\* frames that are malformed: not decodable, not a record, or a message or
\* typing event without its required fields or with a field of the wrong type
Malformed ==
    {p \in Payloads :
        \/ p.shape # "record"
        \/ p.type \in {"message", "typing"} /\ (Raises(p) \/ ~Accepted(p))}

\* C5: a malformed frame is dropped and nothing else happens: nothing is sent,
\* registry and typing state are unchanged, the connection stays open and
\* registered and goes on receiving.
C5_MalformedDropsOnlyEvent ==
    [][\A c \in Conns, p \in Malformed :
          Receive(c, p) =>
              /\ pc'[c] = "receive"
              /\ alive'[c]
              /\ dict_contains(active_connections', uid[c])
              /\ UNCHANGED <<active_connections, typing_users, inbox>>]_vars

\* C6: connect(id) sends the "online" status to every other id registered at
\* that moment and never to id itself, whatever sends fail, and leaves id
\* registered with its handler in the receive loop.
C6_RegisterBroadcastsOnline ==
    [][\A c \in Conns :
          (pc[c] = "online_broadcast" /\ pc'[c] # "online_broadcast") =>
              /\ pc'[c] = "receive"
              /\ dict_contains(active_connections', uid[c])
              /\ bcast[c].snapshot \subseteq bcast[c].sent_to
              /\ uid[c] \notin bcast[c].sent_to]_vars

Unregisters(c) == Cardinality({i \in 1..Len(cleanup[c]) : cleanup[c][i] = "unregister"})

\* C7: every handler that registered its id and has terminated has called
\* disconnect(id) exactly once.
C7_CleanupExactlyOnce ==
    \A c \in Conns :
        /\ Unregisters(c) <= 1
        /\ pc[c] \in Ended => Unregisters(c) = 1

\* C8: a broadcast that other handlers' connects and disconnects interleave
\* with ends without error and has sent the status to every id that stayed
\* registered throughout.
C8_BroadcastSurvivesConcurrentChange ==
    [][\A c \in Conns :
          (pc[c] \in Broadcasting /\ pc'[c] \notin Broadcasting) =>
              /\ pc'[c] # "raised"
              /\ bcast[c].stayed \subseteq bcast[c].sent_to]_vars

\* C9: a sender is in a recipient's typing set only while its last typing
\* event to that recipient was typing=true and it has since neither sent that
\* recipient an accepted message nor disconnected.
C9_TypingOnlyWhileOutstanding ==
    \A r \in DOMAIN typing_users :
        \A s \in typing_users[r] : <<s, r>> \in outstanding

\* C10: the message and typing events one handler relays to one connection
\* arrive there in the order the handler received them.
C10_RelayPreservesOrder ==
    \A h \in Conns :
        \A i \in {k \in 1..Len(inbox[h]) : inbox[h][k].type \in Relayed} :
            \A j \in (i + 1)..Len(inbox[h]) :
                (/\ inbox[h][j].type \in Relayed
                 /\ origin[h][i].conn = origin[h][j].conn)
                => origin[h][i].seq < origin[h][j].seq

\* a connection has received a typing event and then a message from one sender
C10_Witness ==
    \E h \in Conns :
        \E i, j \in 1..Len(inbox[h]) :
            /\ i < j
            /\ inbox[h][i].type = "typing"
            /\ inbox[h][j].type = "message"
            /\ origin[h][i].conn = origin[h][j].conn
            /\ origin[h][i].conn # h

\* the frames that pass line 327 (message) or line 334 (typing)
AcceptedFrames == {p \in Payloads : Accepted(p)}

AcceptedMessages == {p \in AcceptedFrames : p.type = "message"}

\* C11: when a handler accepts a message event, its sender is in the typing
\* set of the message's recipient no more, whether or not the message is then
\* delivered; in particular after a typing event with is_typing true from the
\* same sender to the same recipient.
C11_MessageClearsTyping ==
    [][\A c \in {h \in Conns : nrecv'[h] # nrecv[h]}, p \in AcceptedMessages :
          Receive(c, p) =>
              /\ p.recipient_id \in DOMAIN typing_users'
              /\ uid[c] \notin typing_users'[p.recipient_id]
              /\ pc'[c] \in {"send_to_user", "send_receipt"}
              /\ \A r \in DOMAIN typing_users \ {p.recipient_id} :
                    typing_users'[r] = typing_users[r]]_vars

\* a recipient has received typing=true from a handler that is now relaying a
\* message to the same recipient id, and the sender is in its typing set no
\* more; the message is not delivered
C11_Witness ==
    \E c, h \in Conns :
        /\ \E i \in 1..Len(inbox[h]) :
              /\ inbox[h][i] = TypingEvent(uid[c], TRUE)
              /\ origin[h][i].conn = c
        /\ pc[c] = "send_receipt"
        /\ pending[c].type = "message"
        /\ pending[c].recipient_id = uid[h]
        /\ ~pending[c].sent
        /\ uid[c] \notin typing_users[uid[h]]

\* message events with a recipient whose text is missing, empty or only
\* whitespace
BlankMessages ==
    {p \in Payloads :
        /\ ~Raises(p)
        /\ p.type = "message"
        /\ RecipientTruthy(p)
        /\ \A i \in 1..Len(FrameText(p)) : FrameText(p)[i] \in Whitespace}

\* C12: a message event whose text is empty or only whitespace produces no
\* outbound event: the handler starts no send to the recipient and none to the
\* sender, nobody receives anything, and it goes on receiving.
C12_BlankMessageSendsNothing ==
    [][\A c \in {h \in Conns : nrecv'[h] # nrecv[h]}, p \in BlankMessages :
          Receive(c, p) =>
              /\ pc'[c] = "receive"
              /\ pending'[c].ws = NoConn
              /\ UNCHANGED <<inbox, typing_users, active_connections>>]_vars

\* a handler has dropped a message with a recipient and a text that is empty
\* after trimming while every id was registered with an open connection:
\* neither connection has received an envelope or a receipt
C12_Witness ==
    \E c, h \in Conns :
        /\ c # h
        /\ pc[c] = "receive" /\ alive[c] /\ nrecv[c] = 1
        /\ pending[c].type = "message"
        /\ pending[c].text = <<>>
        /\ \A id \in Ids : is_online(id)
        /\ dict_getitem(active_connections, uid[h]) = h
        /\ dict_getitem(active_connections, uid[c]) = c
        /\ alive[h] /\ pc[h] = "receive"
        /\ \A i \in 1..Len(inbox[h]) : inbox[h][i].type = "status"
        /\ \A i \in 1..Len(inbox[c]) : inbox[c][i].type = "status"

\* how often id occurs in get_online_users()
Occurrences(id) ==
    LET online == get_online_users
    IN  Cardinality({i \in 1..Len(online) : online[i] = id})

\* the connections that have called connect(id, _)
Registered(id) == {c \in Conns : pc[c] # "new" /\ uid[c] = id}

\* the connection of the latest connect(id, _) (connections are numbered in
\* the order they connect)
LatestRegister(id) == CHOOSE c \in Registered(id) : \A c2 \in Registered(id) : c2 <= c

\* C13: the registry holds at most one entry per id; get_online_users lists a
\* registered id exactly once, also after two connects of the id with
\* different handles, and its entry maps to the handle of the latest connect.
C13_OneEntryPerId ==
    \A id \in Ids :
        LET listed == Occurrences(id)
            online == is_online(id)
        IN
        /\ listed <= 1
        /\ Cardinality({i \in 1..Len(active_connections) :
                            active_connections[i].key = id}) <= 1
        /\ online <=> listed = 1
        /\ online =>
              /\ Registered(id) # {}
              /\ dict_getitem(active_connections, id) = LatestRegister(id)
        /\ last_call[id] = "register" => listed = 1

\* an id was registered twice in a row with different handles, both still
\* open, and is listed once, with the second handle
C13_Witness ==
    /\ uid[1] = uid[2] /\ uid[1] \in Ids
    /\ pc[1] = "receive" /\ pc[2] = "receive"
    /\ cleanup[1] = <<>> /\ cleanup[2] = <<>>
    /\ get_online_users = <<uid[1]>>
    /\ dict_getitem(active_connections, uid[1]) = 2

\* C14: send_to_user returns False when the id is not registered and when the
\* send through its handle fails, True when the send succeeds, and never
\* changes the registry: after a failed send the id is still registered with
\* the same handle.
C14_SendToUserLeavesRegistry ==
    [][\A c \in Conns :
          /\ nrecv'[c] # nrecv[c] =>
                \A p \in AcceptedFrames :
                    (~is_online(p.recipient_id) /\ Receive(c, p)) =>
                        /\ active_connections' = active_connections
                        /\ UNCHANGED inbox
                        /\ p.type = "message" =>
                              pc'[c] = "send_receipt" /\ ~pending'[c].sent
          /\ (pc[c] = "send_to_user" /\ pc'[c] # "send_to_user" /\ SendToUserDone(c)) =>
                /\ active_connections' = active_connections
                /\ pending[c].type = "message" =>
                      (pending'[c].sent <=> alive[pending[c].ws])]_vars

\* a send through the handle of a registered id has failed: the call returned
\* False and the id is still listed, with the same dead handle
C14_Witness ==
    \E c \in Conns :
        /\ pc[c] = "send_receipt"
        /\ pending[c].live /\ ~pending[c].sent
        /\ ~alive[pending[c].ws]
        /\ Occurrences(pending[c].recipient_id) = 1
        /\ dict_getitem(active_connections, pending[c].recipient_id) = pending[c].ws

\* typing events with a recipient
TypingFrames ==
    {p \in Payloads :
        p.type = "typing" /\ p.recipient_type = "str" /\ Truthy(p.recipient_id)}

\* handler c takes typing event p: the typing state is updated (is_typing is
\* true when absent), nothing is sent yet, one delivery is attempted iff the
\* recipient is registered, and the sender stays open and registered as it was
TypingAccepted(c, p) ==
    /\ p.recipient_id \in DOMAIN typing_users'
    /\ uid[c] \in typing_users'[p.recipient_id] <=> (p.has_is_typing => p.is_typing)
    /\ UNCHANGED <<inbox, active_connections>>
    /\ alive'[c]
    /\ pc'[c] = IF is_online(p.recipient_id) THEN "send_to_user" ELSE "receive"
    /\ is_online(p.recipient_id) =>
          /\ pending'[c].type = "typing"
          /\ pending'[c].ws = dict_getitem(active_connections, p.recipient_id)
          /\ pending'[c].is_typing <=> (p.has_is_typing => p.is_typing)

\* the delivery attempt of handler c's typing event ends: delivered or not,
\* the sender is back in its receive loop, open and registered as it was
TypingDelivered(c) ==
    /\ pc'[c] = "receive"
    /\ alive'[c] = alive[c]
    /\ UNCHANGED <<active_connections, typing_users>>
    /\ \A h \in Conns \ {pending[c].ws} : inbox'[h] = inbox[h]
    /\ inbox'[pending[c].ws] =
          IF alive[pending[c].ws]
          THEN Append(inbox[pending[c].ws], TypingEvent(uid[c], pending[c].is_typing))
          ELSE inbox[pending[c].ws]

\* C15 as stated: a typing event with a recipient updates the typing state,
\* attempts one best-effort delivery to the recipient, never sends anything to
\* the sender's own connection, and leaves the sender open and registered
\* whatever the delivery does.
C15_TypingSendsNothingToSender ==
    [][\A c \in Conns :
          /\ nrecv'[c] # nrecv[c] =>
                \A p \in TypingFrames : Receive(c, p) => TypingAccepted(c, p)
          /\ (pc[c] = "send_to_user" /\ pending[c].type = "typing" /\ SendToUserDone(c)) =>
                /\ TypingDelivered(c)
                /\ inbox'[c] = inbox[c]]_vars

\* C15 amended: a typing event with a recipient updates the typing state,
\* attempts one best-effort delivery to the handle registered under
\* recipient_id and sends nothing else; the sender's own connection receives
\* the envelope only when that handle is its own, i.e. when it addressed its
\* own id; the sender is left open and registered whatever the delivery does.
C15_TypingOnlyToRecipientHandle ==
    [][\A c \in Conns :
          /\ nrecv'[c] # nrecv[c] =>
                \A p \in TypingFrames : Receive(c, p) => TypingAccepted(c, p)
          /\ (pc[c] = "send_to_user" /\ pending[c].type = "typing" /\ SendToUserDone(c)) =>
                /\ TypingDelivered(c)
                /\ inbox'[c] # inbox[c] =>
                      /\ pending[c].ws = c
                      /\ pending[c].recipient_id = uid[c]]_vars

\* a typing event was relayed to another connection as typing=true; the
\* sender has received nothing for it and is open and registered
C15_Witness ==
    \E c, h \in Conns :
        /\ c # h
        /\ inbox[h] # <<>>
        /\ inbox[h][Len(inbox[h])] = TypingEvent(uid[c], TRUE)
        /\ origin[h][Len(inbox[h])].conn = c
        /\ uid[c] \in typing_users[uid[h]]
        /\ pc[c] = "receive" /\ alive[c] /\ nrecv[c] = 1
        /\ dict_getitem(active_connections, uid[c]) = c
        /\ \A i \in 1..Len(inbox[c]) : inbox[c][i].type = "status"

\* the requests that have been answered, and the add_contact calls
Answered == {r \in Reqs : calls[r].pc = "done"}
AddCalls == {r \in Reqs : calls[r].kind = "add_contact"}

\* the response add_contact owes a call, from what the store held when the
\* call arrived: the caller is unknown, the target is unknown, the target is
\* the caller's own anonymous id, the pair is stored already, or none of these
Owed(call) ==
    IF \A u \in call.users_before : u.telegram_id # call.telegram_id
    THEN <<404, "User not found">>
    ELSE IF \A u \in call.users_before : u.anonymous_id # call.target
    THEN <<404, "Target user not found">>
    ELSE IF \E u \in call.users_before :
                u.telegram_id = call.telegram_id /\ u.anonymous_id = call.target
    THEN <<400, "Cannot add yourself">>
    ELSE IF call.stored_before
    THEN <<400, "Contact already added">>
    ELSE <<200, "Contact added">>

\* the store holds no pair twice; an add_contact call that no other request
\* overlapped got the response it was owed; no call, overlapped or not, was
\* accepted with the caller's own id or with a target that is no user
C16_Answers ==
    /\ \A i, j \in 1..Len(contacts) : contacts[i] = contacts[j] => i = j
    /\ \A r \in Answered \cap AddCalls :
          /\ ~calls[r].overlapped => <<calls[r].status, calls[r].detail>> = Owed(calls[r])
          /\ calls[r].status = 200 =>
                /\ \E u \in users : /\ u.id = calls[r].user.id
                                     /\ u.telegram_id = calls[r].telegram_id
                                     /\ u.anonymous_id # calls[r].target
                /\ \E u \in users : u.anonymous_id = calls[r].target

\* the store changes only in the commit of a call that is answered 200: by
\* the one pair of an add_contact call, which it did not hold, or by the
\* removal of the pair of a remove_contact call; the step that rejects an
\* add_contact call leaves it as it is
C16_StoreChanges ==
    /\ contacts' # contacts =>
          \E r \in Reqs :
              /\ calls[r].pc = "commit" /\ calls'[r].status = 200
              /\ \/ /\ calls[r].kind = "add_contact"
                    /\ ~select_contact(contacts, calls[r].user.id, calls[r].target)
                    /\ contacts' = Append(contacts, ContactRow(calls[r]))
                 \/ /\ calls[r].kind = "remove_contact"
                    /\ contacts' = delete_contact(contacts, ContactRow(calls[r]))
    /\ \A r \in AddCalls :
          (calls[r].status = 0 /\ calls'[r].status \notin {0, 200}) => contacts' = contacts

\* C16: add_contact rejects the caller's own anonymous id, rejects an unknown
\* target and rejects as duplicate a pair that is stored; whatever requests
\* run and however they interleave, the store holds at most one record per
\* (owner, target) pair and a rejected call leaves the store unchanged.
C16_AddContactRejections == [][C16_Answers' /\ C16_StoreChanges]_vars

\* a call added a pair and a second call for the same pair, which arrived
\* after the first was answered, was rejected as duplicate; the store holds
\* the pair once
C16_Witness ==
    \E r1, r2 \in Answered \cap AddCalls :
        /\ calls[r1].status = 200
        /\ calls[r2].status = 400 /\ calls[r2].detail = "Contact already added"
        /\ calls[r2].stored_before /\ ~calls[r2].overlapped
        /\ calls[r2].telegram_id = calls[r1].telegram_id
        /\ calls[r2].target = calls[r1].target
        /\ Len(contacts) = 1

\* the hash init_data supplies (empty when it has none) and the digest
\* recomputed from its other fields
Supplied ==
    IF "hash" \in DOMAIN dict_of_pairs(init_data)
    THEN dict_of_pairs(init_data)["hash"]
    ELSE Str("")

Recomputed == calculated_hash(bot_token, dict_of_pairs(init_data))

\* the user field of init_data is absent or is JSON
UserIsJson ==
    "user" \in DOMAIN dict_of_pairs(init_data) =>
        ~JSONDecodeError(dict_of_pairs(init_data)["user"].text)

\* C17 as stated: with a bot token configured, validate_telegram_data accepts
\* the payload iff the recomputed digest equals the supplied hash when both
\* are compared as hex without regard to case.
C17_AcceptsIffHashMatchesIgnoringCase ==
    (bot_token # "" /\ validated.called) =>
        (validated.ok <=> Lower(Recomputed) = Lower(Supplied))

\* C17 amended: with a bot token configured, validate_telegram_data accepts
\* the payload iff the supplied hash is exactly the lower-case hex digest
\* recomputed from the other fields and the user field, if present, is JSON;
\* so a payload whose digest does not match is rejected whatever it contains,
\* and so is a matching digest written in upper case.
C17_AcceptsIffHashIsExactDigest ==
    (bot_token # "" /\ validated.called) =>
        /\ validated.ok <=> (Supplied = Recomputed /\ UserIsJson)
        /\ Lower(Supplied) # Lower(Recomputed) => ~validated.ok
        /\ Supplied = Upper(Recomputed) => ~validated.ok

\* a payload with a user and an auth_date field and the digest of both was
\* accepted
C17_Witness ==
    /\ bot_token # ""
    /\ validated.called /\ validated.ok
    /\ Supplied = Recomputed
    /\ Len(Recomputed.lines) = 1
    /\ "user" \in DOMAIN dict_of_pairs(init_data)
    /\ validated.user = dict_of_pairs(init_data)["user"].text

\* handler c is in its receive loop and its client has not closed
InOpenLoop(c) ==
    /\ pc[c] \in {"receive", "send_to_user", "send_receipt", "send_pong"}
    /\ alive[c]

\* a later connection has registered the id of connection c
Replaced(c) == \E c2 \in Registered(uid[c]) : c2 > c

\* C18: every connection that is in its open receive loop and has not been
\* replaced by a later connection of the same id is registered under its id
\* with its own handle; in particular the disconnect of an older, replaced
\* connection does not remove the entry of the newer one.
C18_OpenConnectionIsRegistered ==
    \A c \in Conns :
        (InOpenLoop(c) /\ ~Replaced(c)) =>
            /\ is_online(uid[c])
            /\ dict_getitem(active_connections, uid[c]) = c

\* no broadcast is in progress
Quiescent == \A c \in Conns : pc[c] \notin Broadcasting

\* the status events connection P has received about id X
StatusesAbout(P, X) ==
    {i \in 1..Len(inbox[P]) : inbox[P][i].type = "status" /\ inbox[P][i].user_id = X}

\* the last status P has received about X ("none": it has received none)
LastStatus(P, X) ==
    IF StatusesAbout(P, X) = {} THEN "none"
    ELSE inbox[P][CHOOSE i \in StatusesAbout(P, X) :
                      \A j \in StatusesAbout(P, X) : j <= i].status

\* C19: for a connection P that stays connected and registered and an id X
\* other than P's that registered after P did, whenever no broadcast is in
\* progress the last status P has received about X is "online" iff X is
\* registered.
C19_PresenceViewConsistent ==
    Quiescent =>
        \A P \in Conns, X \in Ids :
            (/\ InOpenLoop(P)
             /\ is_online(uid[P])
             /\ dict_getitem(active_connections, uid[P]) = P
             /\ X # uid[P]
             /\ \A c \in Registered(X) : c > P)
            => (LastStatus(P, X) = "online" <=> is_online(X))

\* handle h has received one more event, of type t and with sender_id s
ReceivedOneFrom(h, t, s) ==
    /\ Len(inbox'[h]) = Len(inbox[h]) + 1
    /\ SubSeq(inbox'[h], 1, Len(inbox[h])) = inbox[h]
    /\ inbox'[h][Len(inbox'[h])].type = t
    /\ inbox'[h][Len(inbox'[h])].sender_id = s

\* C20: a handler sends an accepted message or typing event only through the
\* handle that was registered under the event's recipient_id when it called
\* send_to_user, and to nobody if none was; the envelope carries as sender_id
\* the id the handler's connection was opened under, whatever the frame
\* contains; the receipt goes to the sender's own connection only.  No other
\* connection receives anything.
C20_RelayOnlyToRecipientHandle ==
    [][\A c \in DOMAIN pc :
          /\ nrecv'[c] # nrecv[c] =>
                \A p \in Payloads :
                    Receive(c, p) =>
                        /\ UNCHANGED inbox
                        /\ pc'[c] = "send_to_user" <=>
                              (Accepted(p) /\ is_online(p.recipient_id))
                        /\ pc'[c] = "send_to_user" =>
                              pending'[c].ws =
                                  dict_getitem(active_connections, p.recipient_id)
          /\ (pc[c] = "send_to_user" /\ pc'[c] # "send_to_user") =>
                /\ SendToUserDone(c)
                /\ \A h \in DOMAIN pc \ {pending[c].ws} : inbox'[h] = inbox[h]
                /\ \/ inbox'[pending[c].ws] = inbox[pending[c].ws]
                   \/ ReceivedOneFrom(pending[c].ws, pending[c].type, uid[c])
          /\ (pc[c] \in {"send_receipt", "send_pong"} /\ pc'[c] # pc[c]) =>
                \A h \in DOMAIN pc \ {c} : inbox'[h] = inbox[h]]_vars

\* three open connections under three ids: one has relayed a message to
\* another, which holds it with the sender's id, and has its receipt; the
\* third has received status events only
C20_Witness ==
    \E c, h, t \in AllConns :
        /\ uid[c] # uid[h] /\ uid[c] # uid[t] /\ uid[h] # uid[t]
        /\ \A x \in {c, h, t} : pc[x] = "receive" /\ alive[x]
        /\ inbox[h] # <<>>
        /\ inbox[h][Len(inbox[h])].type = "message"
        /\ inbox[h][Len(inbox[h])].sender_id = uid[c]
        /\ origin[h][Len(inbox[h])].conn = c
        /\ \E i \in 1..Len(inbox[c]) :
              inbox[c][i].type = "message_sent" /\ inbox[c][i].delivered
        /\ \A i \in 1..Len(inbox[t]) : inbox[t][i].type = "status"
====
